---- MODULE Spec2Model ----
(***************************************************************************)
(* Model of profiler.py: the benchmark sweep over kernel variants, the     *)
(* ping-pong pass recording of run_bfs_variant / run_bfs_tex_variant, the  *)
(* timestamp query / resolve / readback pipeline and the device queue the  *)
(* host synchronises with.                                                 *)
(*                                                                         *)
(* Optional values (Python None) are sequences of length 0 or 1.           *)
(* Variant names are tuples of characters so that the substring test       *)
(* `"tex" in name` is computed, not assumed.                               *)
(***************************************************************************)
EXTENDS Integers, Sequences, FiniteSets, TLC

\* ---------------------------------------------------------------- bounds
\* Passes a whole sweep records, all its variants together.
MaxPasses == 3
\* Records in the variant list.
MaxVariants == 2
\* Width of a tick value in bits.
TickBits == 3
\* Side of the grid whose cells are modelled (GRID_SIZE scaled down).
GridSide == 4

\* ------------------------------------------------------ program constants
GRID_SIZE == 2048
SlotStride == 256
U64Bytes == 8
EARLY_OUT == 1
DISPATCH_X == (GRID_SIZE + 7) \div 8
DISPATCH_Y == (GRID_SIZE + 7) \div 8

None == <<>>
Some(x) == <<x>>

\* Tick values are unsigned integers of TickBits bits (64 in the program).
TickModulus == 2 ^ TickBits
\* Ticks one pass may take on the device.
PassTicks == {0, 1}

\* ------------------------------------------------------------ variant names
NameBuf == <<"B", "F", "S">>
NameTex == <<"B", "t", "e", "x">>
Names == {NameBuf, NameTex}

\* Python's `sub in s` for sequences of characters.
Contains(s, sub) ==
    \E k \in 0..(Len(s) - Len(sub)) :
        \A j \in 1..Len(sub) : s[k + j] = sub[j]

IsTexName(name) == Contains(name, <<"t", "e", "x">>)

VariantRecords == [name : Names, iterations : 0..MaxPasses]

RECURSIVE SeqsUpTo(_, _)
SeqsUpTo(S, n) ==
    IF n = 0 THEN {<<>>}
    ELSE LET shorter == SeqsUpTo(S, n - 1)
         IN shorter \cup {Append(q, x) : q \in {r \in shorter : Len(r) = n - 1}, x \in S}

RECURSIVE TotalIterations(_)
TotalIterations(vs) ==
    IF vs = <<>> THEN 0 ELSE Head(vs).iterations + TotalIterations(Tail(vs))

\* The variant lists considered: up to MaxVariants records, MaxPasses passes.
VariantLists ==
    {vs \in SeqsUpTo(VariantRecords, MaxVariants) : TotalIterations(vs) <= MaxPasses}

\* ------------------------------------------------------------------- state
VARIABLES
    variants,              \* the list the sweep iterates
    can_timestamp,         \* "timestamp-query" in adapter.features
    vi,                    \* number of the variant the for loop is at (0: none yet)
    pc,                    \* position of the host thread
    exc,                   \* None, or the uncaught exception that ended the process
    bind_group_ping,       \* BindingsA: read ping, write pong
    bind_group_pong,       \* BindingsB: read pong, write ping
    n_bind_groups,         \* create_bind_group calls made by the current run
    query_set,             \* None or the query set (its count)
    resolve_buffer_size,   \* None or the size in bytes
    encoder,               \* commands recorded into the run's command encoder
    step,                  \* loop variable of the pass loop
    qi,                    \* loop variable of the resolve loop
    read_from_ping,
    last_output,           \* last_output / last_tex: the resource read back
    times,                 \* None or the ticks taken from the mapped read buffer
    timestamp_ticks,       \* None or the per-pass tick differences
    period_ns,             \* None or the nanoseconds per tick of the statistics
    distance_field,        \* None or the field read back by the current run
    results,               \* the report: name -> result
    returned,              \* what each finished run returned, in order
    submitted,             \* batches the current run submitted to the queue
    ndone,                 \* how many of them the device has completed
    mem,                   \* contents of the cost and distance resources
    qvals,                 \* contents of the query set
    resolve_buffer,        \* contents of the resolve buffer: byte offset -> u64
    timestamp_read_buffer, \* contents of the timestamp read buffer
    staging,               \* contents of the readback staging buffer
    mapped,                \* buffers currently mapped into host memory
    twin                   \* None or the summary of an earlier execution of the script

cfgVars == <<variants, can_timestamp, twin>>
loopVars == <<vi, results, returned>>
bindVars == <<bind_group_ping, bind_group_pong, n_bind_groups>>
tsSetupVars == <<query_set, resolve_buffer_size>>
recVars == <<encoder, step, qi, read_from_ping, last_output>>
outVars == <<times, timestamp_ticks, period_ns, distance_field>>
queueVars == <<submitted, ndone>>
devMemVars == <<mem, qvals, resolve_buffer, timestamp_read_buffer, staging>>

vars == <<cfgVars, loopVars, pc, exc, bindVars, tsSetupVars, recVars, outVars,
          queueVars, devMemVars, mapped>>

\* ---------------------------------------------------------- the current run
CurName == variants[vi].name
CurIters == variants[vi].iterations
CurIsTex == IsTexName(CurName)

\* Mutant: exceptions are swallowed and the script goes on.
RunningRegardless == TRUE

\* An uncaught exception ends the process: nothing in the script catches one
\* around a run, so no host step follows it.
Running == exc = None

\* ----------------------------------------------------------------- resources
PingOf(tex) == IF tex THEN "dist_tex_ping" ELSE "distance_buffer_ping"
PongOf(tex) == IF tex THEN "dist_tex_pong" ELSE "distance_buffer_pong"
CostOf(tex) == IF tex THEN "terrain_tex" ELSE "grid_buffer"

\* What a bind group entry names: a buffer, or the view of a texture.
BindingOf(res) ==
    CASE res = "dist_tex_ping" -> "dist_view_ping"
      [] res = "dist_tex_pong" -> "dist_view_pong"
      [] res = "terrain_tex" -> "terrain_view"
      [] OTHER -> res

\* The resource behind a bind group entry.
ResourceOf(binding) ==
    CASE binding = "dist_view_ping" -> "dist_tex_ping"
      [] binding = "dist_view_pong" -> "dist_tex_pong"
      [] binding = "terrain_view" -> "terrain_tex"
      [] OTHER -> binding

DistanceResources ==
    {"distance_buffer_ping", "distance_buffer_pong", "dist_tex_ping", "dist_tex_pong"}

CostResources == {"grid_buffer", "terrain_tex"}

\* ------------------------------------------------------------------ the grid
\* Fields are flat row-major arrays: cell (x, y) is element y * GridSide + x,
\* held at place y * GridSide + x + 1 of a sequence.
NUM_CELLS == GridSide * GridSide
GoalX == GridSide - 3
GoalY == GridSide - 3
GOAL_INDEX == GoalY * GridSide + GoalX

\* build_demo_grid: ones, a horizontal and a vertical wall of zeros each with
\* an opening, two costlier areas above the horizontal wall, the goal passable.
\* The assignments take effect in the order of the code.
build_demo_grid(size, goal_x, goal_y) ==
    [i \in 1..(size * size) |->
        LET x == (i - 1) % size
            y == (i - 1) \div size
            wall_y == size \div 2
            wall_x == size \div 3
            v1 == IF y = wall_y /\ x >= size \div 4 /\ x < size - size \div 6
                  THEN 0 ELSE 1
            v2 == IF y = wall_y /\ x = goal_x THEN 1 ELSE v1
            v3 == IF x = wall_x /\ y >= size \div 5 /\ y < size - size \div 5
                  THEN 0 ELSE v2
            v4 == IF y = goal_y /\ x = wall_x THEN 1 ELSE v3
            v5 == IF y < wall_y /\ x >= wall_x THEN v4 * 2 ELSE v4
            v6 == IF y < wall_y /\ x < wall_x THEN v5 * 4 ELSE v5
        IN IF y = goal_y /\ x = goal_x THEN 1 ELSE v6]

terrain_flat == build_demo_grid(GridSide, GoalX, GoalY)

\* distance_seed: all cells 0 except the goal cell, which is 1.
Seed == [i \in 1..NUM_CELLS |-> IF i = GOAL_INDEX + 1 THEN 1 ELSE 0]

\* The places of the up to eight cells around the cell at place i.
Neighbours(i) ==
    LET x == (i - 1) % GridSide
        y == (i - 1) \div GridSide
    IN {ny * GridSide + nx + 1 :
          <<nx, ny>> \in {c \in ((x - 1)..(x + 1)) \X ((y - 1)..(y + 1)) :
                             /\ c # <<x, y>>
                             /\ c[1] >= 0 /\ c[1] < GridSide
                             /\ c[2] >= 0 /\ c[2] < GridSide}}

Min(S) == CHOOSE m \in S : \A n \in S : m <= n

\* The opaque kernel, one relaxation pass: a passable unvisited cell with a
\* visited cell around it becomes visited, one step further than the nearest of
\* them. With the early-out flag a cell already visited in distance-in is
\* skipped: nothing is written for it and distance-out keeps what it held.
Kernel(cost, in, out, early_out) ==
    [i \in 1..NUM_CELLS |->
        IF in[i] > 0
        THEN IF early_out # 0 THEN out[i] ELSE in[i]
        ELSE LET around == {in[n] : n \in {m \in Neighbours(i) : in[m] > 0}}
             IN IF cost[i] > 0 /\ around # {} THEN Min(around) + 1 ELSE 0]

\* The memory of a freshly started process: the cost field uploaded to the
\* buffer and to the texture, the distance resources as their makers seed them.
FreshMemory ==
    [r \in DistanceResources \cup CostResources |->
        IF r \in CostResources THEN terrain_flat ELSE Seed]

Init ==
    /\ variants \in VariantLists
    /\ can_timestamp \in BOOLEAN
    /\ twin = None
    /\ vi = 0
    /\ pc = "for"
    /\ exc = None
    /\ bind_group_ping = None
    /\ bind_group_pong = None
    /\ n_bind_groups = 0
    /\ query_set = None
    /\ resolve_buffer_size = None
    /\ encoder = <<>>
    /\ step = 0
    /\ qi = 0
    /\ read_from_ping = TRUE
    /\ last_output = "none"
    /\ times = None
    /\ timestamp_ticks = None
    /\ period_ns = None
    /\ distance_field = None
    /\ results = <<>>
    /\ returned = <<>>
    /\ submitted = <<>>
    /\ ndone = 0
    /\ mem = FreshMemory
    /\ qvals = <<>>
    /\ resolve_buffer = <<>>
    /\ timestamp_read_buffer = <<>>
    /\ staging = None
    /\ mapped = {}


\* ------------------------------------------------------- the sweep (for loop)
\* for name, shader, iters in variants: the next record is taken and its run
\* function entered, with fresh locals; the resources of the run before it are
\* no longer referenced.
StartVariant ==
    /\ Running
    /\ pc = "for"
    /\ vi < Len(variants)
    /\ vi' = vi + 1
    /\ pc' = "make_pipeline"
    /\ bind_group_ping' = None
    /\ bind_group_pong' = None
    /\ n_bind_groups' = 0
    /\ query_set' = None
    /\ resolve_buffer_size' = None
    /\ encoder' = <<>>
    /\ step' = 0
    /\ qi' = 0
    /\ read_from_ping' = TRUE
    /\ last_output' = "none"
    /\ times' = None
    /\ timestamp_ticks' = None
    /\ period_ns' = None
    /\ distance_field' = None
    /\ submitted' = <<>>
    /\ ndone' = 0
    /\ qvals' = <<>>
    /\ resolve_buffer' = <<>>
    /\ timestamp_read_buffer' = <<>>
    /\ staging' = None
    /\ mem' = [r \in DOMAIN mem |-> IF r \in DistanceResources THEN Seed ELSE mem[r]]
    /\ UNCHANGED <<cfgVars, results, returned, exc, mapped>>

\* The list is exhausted: the script ends.
SweepDone ==
    /\ Running
    /\ pc = "for"
    /\ vi = Len(variants)
    /\ pc' = "exit"
    /\ UNCHANGED <<cfgVars, loopVars, exc, bindVars, tsSetupVars, recVars, outVars,
                   queueVars, devMemVars, mapped>>

\* ------------------------------------------------------------ run set-up
\* make_bfs_pipeline / make_bfs_tex_pipeline: shader source, module, layouts.
MakePipeline ==
    /\ Running
    /\ pc = "make_pipeline"
    /\ pc' = "make_distance"
    /\ UNCHANGED <<cfgVars, loopVars, exc, bindVars, tsSetupVars, recVars, outVars,
                   queueVars, devMemVars, mapped>>

\* make_distance_buffers / make_distance_texture_seed (twice): a fresh ping/pong
\* pair, both seeded alike.
MakeDistance ==
    /\ Running
    /\ pc = "make_distance"
    /\ mem' = [r \in DOMAIN mem |->
                 IF r \in {PingOf(CurIsTex), PongOf(CurIsTex)} THEN Seed ELSE mem[r]]
    /\ pc' = "bind_groups"
    /\ UNCHANGED <<cfgVars, loopVars, exc, bindVars, tsSetupVars, recVars, outVars,
                   queueVars, qvals, resolve_buffer, timestamp_read_buffer, staging,
                   mapped>>

\* The four entries of a bind group reading `src` and writing `dst`.
BindGroup(tex, src, dst) ==
    [b0 |-> BindingOf(CostOf(tex)), b1 |-> BindingOf(src), b2 |-> BindingOf(dst),
     b3 |-> "uniform_buffer"]

\* bind_group_ping: distance-in ping, distance-out pong.
\* Mutant: the group of the even passes has the cost field at slot 2.
BindGroupPingIntoCost(tex) == BindGroup(tex, PingOf(tex), CostOf(tex))

BindGroupPing(tex) == BindGroup(tex, PingOf(tex), PongOf(tex))

\* Mutant: the second bind group reads the resource it writes.
BindGroupPongInPlace(tex) == BindGroup(tex, PongOf(tex), PongOf(tex))

\* bind_group_pong: distance-in pong, distance-out ping.
BindGroupPong(tex) == BindGroup(tex, PongOf(tex), PingOf(tex))

CreateBindGroups ==
    /\ Running
    /\ pc = "bind_groups"
    /\ bind_group_ping' = Some(BindGroupPing(CurIsTex))
    /\ bind_group_pong' = Some(BindGroupPong(CurIsTex))
    /\ n_bind_groups' = n_bind_groups + 2
    /\ pc' = "timestamp_setup"
    /\ UNCHANGED <<cfgVars, loopVars, exc, tsSetupVars, recVars, outVars, queueVars,
                   devMemVars, mapped>>

QueryCount(iterations) == 2 * iterations

ResolveBufferSize(query_count) == query_count * SlotStride

\* Timestamp setup: a query set and the two timestamp buffers, or nothing.
TimestampSetup ==
    /\ Running
    /\ pc = "timestamp_setup"
    /\ IF can_timestamp
       THEN /\ query_set' = Some([count |-> QueryCount(CurIters)])
            /\ resolve_buffer_size' = Some(ResolveBufferSize(QueryCount(CurIters)))
            /\ qvals' = [q \in 1..QueryCount(CurIters) |-> 0]
            /\ resolve_buffer' = <<>>
            /\ timestamp_read_buffer' = <<>>
       ELSE /\ query_set' = None
            /\ resolve_buffer_size' = None
            /\ UNCHANGED <<qvals, resolve_buffer, timestamp_read_buffer>>
    /\ timestamp_ticks' = None
    /\ pc' = "create_encoder"
    /\ UNCHANGED <<cfgVars, loopVars, exc, bindVars, recVars, times, period_ns,
                   distance_field, queueVars, mem, staging, mapped>>

\* encoder = device.create_command_encoder(); read_from_ping = True.
\* The buffer variant also sets last_output = distance_buffer_ping here.
CreateEncoder ==
    /\ Running
    /\ pc = "create_encoder"
    /\ encoder' = <<>>
    /\ read_from_ping' = TRUE
    /\ last_output' = IF CurIsTex THEN last_output ELSE PingOf(FALSE)
    /\ step' = 0
    /\ pc' = "record"
    /\ UNCHANGED <<cfgVars, loopVars, exc, bindVars, tsSetupVars, qi, outVars,
                   queueVars, devMemVars, mapped>>

\* ------------------------------------------------------------ pass recording
QStart(s) == 2 * s

\* Mutant: the end-of-pass write lands on the next pass's begin index.
QEndNextPass(s) == QStart(s) + 2

QEnd(s) == QStart(s) + 1

\* The pass descriptor's timestamp_writes, when timestamps are on.
TimestampWrites(s) == [begin |-> QStart(s), end |-> QEnd(s)]

\* Mutant: the bind group never alternates.
SelectBindGroupFixed(rfp) == bind_group_ping[1]

\* bind_group_ping if read_from_ping else bind_group_pong
SelectBindGroup(rfp) == IF rfp THEN bind_group_ping[1] ELSE bind_group_pong[1]

\* Mutant: the uninstrumented branch of the loop does not alternate bindings.
ComputePassPlainBranchFixed(s, rfp) ==
    [op |-> "pass",
     timestamp_writes |-> IF can_timestamp THEN Some(TimestampWrites(s)) ELSE None,
     bind_group |-> IF can_timestamp THEN SelectBindGroup(rfp) ELSE bind_group_ping[1],
     dispatches |-> << <<DISPATCH_X, DISPATCH_Y>> >>]

\* One recorded compute pass: pipeline, bind group 0, one dispatch, end.
ComputePass(s, rfp) ==
    [op |-> "pass",
     timestamp_writes |-> IF can_timestamp THEN Some(TimestampWrites(s)) ELSE None,
     bind_group |-> SelectBindGroup(rfp),
     dispatches |-> << <<DISPATCH_X, DISPATCH_Y>> >>]

\* Mutant: last_output follows the pass's input instead of its output.
NextLastOutputSwapped(rfp) == IF rfp THEN PingOf(FALSE) ELSE PongOf(FALSE)

\* last_output = distance_buffer_pong if read_from_ping else distance_buffer_ping
NextLastOutput(rfp) == IF rfp THEN PongOf(FALSE) ELSE PingOf(FALSE)

\* One turn of `for step in range(iterations)` in run_bfs_variant.
RecordPassBuf ==
    /\ Running
    /\ pc = "record"
    /\ ~CurIsTex
    /\ step < CurIters
    /\ encoder' = Append(encoder, ComputePass(step, read_from_ping))
    /\ last_output' = NextLastOutput(read_from_ping)
    /\ read_from_ping' = ~read_from_ping
    /\ step' = step + 1
    /\ UNCHANGED <<cfgVars, loopVars, pc, exc, bindVars, tsSetupVars, qi, outVars,
                   queueVars, devMemVars, mapped>>

\* One turn of the pass loop in run_bfs_tex_variant: no last_output tracking.
RecordPassTex ==
    /\ Running
    /\ pc = "record"
    /\ CurIsTex
    /\ step < CurIters
    /\ encoder' = Append(encoder, ComputePass(step, read_from_ping))
    /\ read_from_ping' = ~read_from_ping
    /\ step' = step + 1
    /\ UNCHANGED <<cfgVars, loopVars, pc, exc, bindVars, tsSetupVars, qi, last_output,
                   outVars, queueVars, devMemVars, mapped>>

\* range(iterations) is exhausted.
EndPasses ==
    /\ Running
    /\ pc = "record"
    /\ step = CurIters
    /\ qi' = 0
    /\ pc' = "resolve"
    /\ UNCHANGED <<cfgVars, loopVars, exc, bindVars, tsSetupVars, encoder, step,
                   read_from_ping, last_output, outVars, queueVars, devMemVars, mapped>>

\* Mutant: the resolved ticks are packed contiguously.
ResolveOffsetPacked(q) == q * 8

ResolveOffset(q) == q * 256

\* encoder.resolve_query_set(query_set, qi, 1, resolve_buffer, qi * 256)
ResolveCommand(q) ==
    [op |-> "resolve", first_query |-> q, query_count |-> 1,
     destination |-> "resolve_buffer", destination_offset |-> ResolveOffset(q)]

\* One turn of `for qi in range(2 * iterations)`.
ResolveQuery ==
    /\ Running
    /\ pc = "resolve"
    /\ can_timestamp
    /\ qi < 2 * CurIters
    /\ encoder' = Append(encoder, ResolveCommand(qi))
    /\ qi' = qi + 1
    /\ UNCHANGED <<cfgVars, loopVars, pc, exc, bindVars, tsSetupVars, step,
                   read_from_ping, last_output, outVars, queueVars, devMemVars, mapped>>

\* No timestamps, or range(2 * iterations) is exhausted.
EndResolves ==
    /\ Running
    /\ pc = "resolve"
    /\ ~can_timestamp \/ qi = 2 * CurIters
    /\ pc' = "submit"
    /\ UNCHANGED <<cfgVars, loopVars, exc, bindVars, tsSetupVars, recVars, outVars,
                   queueVars, devMemVars, mapped>>

\* ------------------------------------------------------ submission and device
\* device.queue.submit([encoder.finish()])
SubmitMain ==
    /\ Running
    /\ pc = "submit"
    /\ submitted' = Append(submitted, [kind |-> "main", cmds |-> encoder])
    /\ pc' = "wait_main"
    /\ UNCHANGED <<cfgVars, loopVars, exc, bindVars, tsSetupVars, recVars, outVars,
                   ndone, devMemVars, mapped>>

\* Everything the current run submitted has completed on the device.
QueueIdle == ndone = Len(submitted)

\* Mutant: the call returns at once, whatever the queue has completed.
SubmittedWorkDoneNoWait == TRUE

\* device.queue.on_submitted_work_done(): the host goes on once the queue has
\* completed the submitted work.
SubmittedWorkDone == QueueIdle

\* The step after the timing section: the texture variant first picks last_tex.
AfterTiming == IF CurIsTex THEN "select_last_tex" ELSE "rb_submit"

WaitMain ==
    /\ Running
    /\ pc = "wait_main"
    /\ SubmittedWorkDone
    /\ pc' = IF can_timestamp THEN "copy_submit" ELSE AfterTiming
    /\ UNCHANGED <<cfgVars, loopVars, exc, bindVars, tsSetupVars, recVars, outVars,
                   queueVars, devMemVars, mapped>>

\* Writing `v` at place `k` of a device memory given as a function.
WriteAt(f, k, v) == (k :> v) @@ f

\* The device's effect of one command on its memory `st`; a pass takes `d` ticks.
ExecCommand(c, st, d) ==
    CASE c.op = "pass" ->
           LET cost == ResourceOf(c.bind_group.b0)
               in == ResourceOf(c.bind_group.b1)
               out == ResourceOf(c.bind_group.b2)
               ended == (st.clock + d) % TickModulus
               tw == c.timestamp_writes
               q1 == IF tw # None /\ tw[1].begin + 1 \in DOMAIN st.qvals
                     THEN WriteAt(st.qvals, tw[1].begin + 1, st.clock) ELSE st.qvals
               q2 == IF tw # None /\ tw[1].end + 1 \in DOMAIN q1
                     THEN WriteAt(q1, tw[1].end + 1, ended) ELSE q1
           IN [st EXCEPT !.mem = [@ EXCEPT ![out] = Kernel(st.mem[cost], st.mem[in],
                                                           st.mem[out], EARLY_OUT)],
                         !.qvals = q2,
                         !.clock = ended]
      [] c.op = "resolve" ->
           IF c.first_query + 1 \in DOMAIN st.qvals
           THEN [st EXCEPT !.resolve_buffer =
                     WriteAt(@, c.destination_offset, st.qvals[c.first_query + 1])]
           ELSE st
      [] c.op = "copy_buffer_to_buffer" ->
           [st EXCEPT !.timestamp_read_buffer = st.resolve_buffer]
      [] c.op = "copy_to_staging" ->
           [st EXCEPT !.staging = Some(st.mem[c.source])]

\* The commands of a batch take effect in recorded order.
RECURSIVE ExecBatch(_, _, _)
ExecBatch(cmds, st, d) ==
    IF cmds = <<>> THEN st
    ELSE ExecBatch(Tail(cmds), ExecCommand(Head(cmds), st, d), d)

\* The device completes the oldest pending batch of the queue, its tick counter
\* standing at `t0` when the batch starts and every pass taking `d` ticks.
DeviceRun(t0, d) ==
    /\ ndone < Len(submitted)
    /\ LET st == ExecBatch(submitted[ndone + 1].cmds,
                           [mem |-> mem, qvals |-> qvals,
                            resolve_buffer |-> resolve_buffer,
                            timestamp_read_buffer |-> timestamp_read_buffer,
                            staging |-> staging, clock |-> t0], d)
       IN /\ mem' = st.mem
          /\ qvals' = st.qvals
          /\ resolve_buffer' = st.resolve_buffer
          /\ timestamp_read_buffer' = st.timestamp_read_buffer
          /\ staging' = st.staging
    /\ ndone' = ndone + 1
    /\ UNCHANGED <<cfgVars, loopVars, pc, exc, bindVars, tsSetupVars, recVars, outVars,
                   submitted, mapped>>

\* A batch on a device whose counter starts at 0 and whose passes are short.
DeviceExecute == \E d \in PassTicks : DeviceRun(0, d)

\* Any tick value a counter of TickBits bits can hold.
TickValues == 0..(TickModulus - 1)

\* A batch on a device whose counter stands anywhere and whose passes take any
\* time: the counter may wrap around between the two writes of a pass. A batch
\* without passes reads no ticks, so one choice stands for all.
DeviceExecuteAnyTicks ==
    /\ ndone < Len(submitted)
    /\ \E t0 \in TickValues, d \in TickValues :
         /\ \/ \E k \in DOMAIN submitted[ndone + 1].cmds :
                  submitted[ndone + 1].cmds[k].op = "pass"
            \/ t0 = 0 /\ d = 0
         /\ DeviceRun(t0, d)

\* ---------------------------------------------------------- timestamp readback
\* copy_encoder: resolve_buffer -> timestamp_read_buffer, submitted on its own.
SubmitCopy ==
    /\ Running
    /\ pc = "copy_submit"
    /\ submitted' = Append(submitted,
           [kind |-> "copy",
            cmds |-> << [op |-> "copy_buffer_to_buffer", source |-> "resolve_buffer",
                         destination |-> "timestamp_read_buffer",
                         size |-> resolve_buffer_size[1]] >>])
    /\ pc' = "wait_copy"
    /\ UNCHANGED <<cfgVars, loopVars, exc, bindVars, tsSetupVars, recVars, outVars,
                   ndone, devMemVars, mapped>>

WaitCopy ==
    /\ Running
    /\ pc = "wait_copy"
    /\ SubmittedWorkDone
    /\ pc' = "ts_map"
    /\ UNCHANGED <<cfgVars, loopVars, exc, bindVars, tsSetupVars, recVars, outVars,
                   queueVars, devMemVars, mapped>>

\* timestamp_read_buffer.map_sync(mode=READ): blocks until the buffer is mapped,
\* which the queue grants once the work using the buffer is done.
MapTimestamps ==
    /\ Running
    /\ pc = "ts_map"
    /\ QueueIdle
    /\ mapped' = mapped \cup {"timestamp_read_buffer"}
    /\ pc' = "ts_read"
    /\ UNCHANGED <<cfgVars, loopVars, exc, bindVars, tsSetupVars, recVars, outVars,
                   queueVars, devMemVars>>

\* np.frombuffer(raw, dtype=uint64): element k is the u64 at byte offset 8k;
\* bytes never written read as zero.
AllU64(buf, size) ==
    [k \in 1..(size \div U64Bytes) |->
        IF (k - 1) * U64Bytes \in DOMAIN buf THEN buf[(k - 1) * U64Bytes] ELSE 0]

\* a[::32]: every 32nd element, starting with the first.
Strided(a) == [j \in 1..((Len(a) + 31) \div 32) |-> a[(j - 1) * 32 + 1]]

\* raw = read_mapped(); all_u64 = frombuffer(raw); times = all_u64[::32].copy()
ReadTimestamps ==
    /\ Running
    /\ pc = "ts_read"
    /\ times' = Some(Strided(AllU64(timestamp_read_buffer, resolve_buffer_size[1])))
    /\ pc' = "ts_unmap"
    /\ UNCHANGED <<cfgVars, loopVars, exc, bindVars, tsSetupVars, recVars,
                   timestamp_ticks, period_ns, distance_field, queueVars, devMemVars,
                   mapped>>

UnmapTimestamps ==
    /\ Running
    /\ pc = "ts_unmap"
    /\ mapped' = mapped \ {"timestamp_read_buffer"}
    /\ pc' = "ts_ticks"
    /\ UNCHANGED <<cfgVars, loopVars, exc, bindVars, tsSetupVars, recVars, outVars,
                   queueVars, devMemVars>>

\* Mutant: the difference is taken in signed integers.
SubTicksSigned(a, b) == a - b

\* Unsigned subtraction at the width of a tick.
SubTicks(a, b) == (a - b) % TickModulus

\* times[1::2] - times[0:2 * iterations:2]
TickDiffs(t, iterations) ==
    [i \in 1..iterations |-> SubTicks(t[2 * i], t[2 * i - 1])]

\* Periods the queue may report (nanoseconds per tick).
ReportedPeriods == {1, 2}

\* timestamp_ticks = ...; period_ns = get_timestamp_period(), or 1.0 when that
\* call raises (the only exception the script catches); then the statistics.
ComputeTicks ==
    /\ Running
    /\ pc = "ts_ticks"
    /\ timestamp_ticks' = Some(TickDiffs(times[1], CurIters))
    /\ \E reported \in ReportedPeriods, raised \in BOOLEAN :
          period_ns' = Some(IF raised THEN 1 ELSE reported)
    /\ pc' = AfterTiming
    /\ UNCHANGED <<cfgVars, loopVars, exc, bindVars, tsSetupVars, recVars, times,
                   distance_field, queueVars, devMemVars, mapped>>

\* Mutant: the final value of read_from_ping is read the wrong way round.
LastTexSwapped(rfp) == IF rfp THEN PongOf(TRUE) ELSE PingOf(TRUE)

\* --------------------------------------------------- distance field readback
\* last_tex = dist_tex_pong if not read_from_ping else dist_tex_ping
LastTex(rfp) == IF ~rfp THEN PongOf(TRUE) ELSE PingOf(TRUE)

\* The texture variant derives its output from the final read_from_ping.
SelectLastTex ==
    /\ Running
    /\ pc = "select_last_tex"
    /\ last_output' = LastTex(read_from_ping)
    /\ pc' = "rb_submit"
    /\ UNCHANGED <<cfgVars, loopVars, exc, bindVars, tsSetupVars, encoder, step, qi,
                   read_from_ping, outVars, queueVars, devMemVars, mapped>>

\* The staging buffer of read_distance_buffer / read_distance_texture.
StagingName == IF CurIsTex THEN "out_buffer" ELSE "staging_buffer"

\* read_distance_*: create the staging buffer, record the copy, submit it.
ReadbackSubmit ==
    /\ Running
    /\ pc = "rb_submit"
    /\ staging' = None
    /\ submitted' = Append(submitted,
           [kind |-> "readback",
            cmds |-> << [op |-> "copy_to_staging", source |-> last_output,
                         destination |-> StagingName] >>])
    /\ pc' = "rb_map"
    /\ UNCHANGED <<cfgVars, loopVars, exc, bindVars, tsSetupVars, recVars, outVars,
                   ndone, mem, qvals, resolve_buffer, timestamp_read_buffer, mapped>>

\* staging_buffer.map_sync(mode=READ)
ReadbackMap ==
    /\ Running
    /\ pc = "rb_map"
    /\ QueueIdle
    /\ mapped' = mapped \cup {StagingName}
    /\ pc' = "rb_read"
    /\ UNCHANGED <<cfgVars, loopVars, exc, bindVars, tsSetupVars, recVars, outVars,
                   queueVars, devMemVars>>

\* data = read_mapped(); result = np.frombuffer(data, float32).copy()
ReadbackRead ==
    /\ Running
    /\ pc = "rb_read"
    /\ distance_field' = staging
    /\ pc' = "rb_unmap"
    /\ UNCHANGED <<cfgVars, loopVars, exc, bindVars, tsSetupVars, recVars, times,
                   timestamp_ticks, period_ns, queueVars, devMemVars, mapped>>

\* staging_buffer.unmap()
ReadbackUnmap ==
    /\ Running
    /\ pc = "rb_unmap"
    /\ mapped' = mapped \ {StagingName}
    /\ pc' = "rb_return"
    /\ UNCHANGED <<cfgVars, loopVars, exc, bindVars, tsSetupVars, recVars, outVars,
                   queueVars, devMemVars>>

\* The pair a run function returns.
RunResult == [distance_field |-> distance_field, ticks |-> timestamp_ticks]

\* reshape, count the filled cells, return distance_field, timestamp_ticks.
ReturnRun ==
    /\ Running
    /\ pc = "rb_return"
    /\ returned' = Append(returned, RunResult)
    /\ pc' = "store"
    /\ UNCHANGED <<cfgVars, vi, results, exc, bindVars, tsSetupVars, recVars, outVars,
                   queueVars, devMemVars, mapped>>

\* results[name] = {"distance_field": field, "ticks": ticks}
StoreResult ==
    /\ Running
    /\ pc = "store"
    /\ results' = (CurName :> returned[Len(returned)]) @@ results
    /\ pc' = "for"
    /\ UNCHANGED <<cfgVars, vi, returned, exc, bindVars, tsSetupVars, recVars, outVars,
                   queueVars, devMemVars, mapped>>

\* ------------------------------------------------------------------ failures
\* Positions whose calls into the file system, the GPU API or numpy can raise.
FailablePcs ==
    {"make_pipeline", "make_distance", "bind_groups", "timestamp_setup",
     "create_encoder", "record", "resolve", "submit", "wait_main", "copy_submit",
     "wait_copy", "ts_map", "ts_read", "ts_unmap", "rb_submit", "rb_map", "rb_read",
     "rb_unmap", "rb_return"}

\* The call at the current position raises; nothing catches it, so it unwinds
\* through the run function and the module-level loop and ends the process.
\* No cleanup runs on the way: the script has no finally or with block.
Raise ==
    /\ Running
    /\ pc \in FailablePcs
    /\ exc' = Some("Error")
    /\ UNCHANGED <<cfgVars, loopVars, pc, bindVars, tsSetupVars, recVars, outVars,
                   queueVars, devMemVars, mapped>>

\* --------------------------------------------------------------- the script
Next ==
    \/ StartVariant
    \/ SweepDone
    \/ MakePipeline
    \/ MakeDistance
    \/ CreateBindGroups
    \/ TimestampSetup
    \/ CreateEncoder
    \/ RecordPassBuf
    \/ RecordPassTex
    \/ EndPasses
    \/ ResolveQuery
    \/ EndResolves
    \/ SubmitMain
    \/ WaitMain
    \/ DeviceExecute
    \/ SubmitCopy
    \/ WaitCopy
    \/ MapTimestamps
    \/ ReadTimestamps
    \/ UnmapTimestamps
    \/ ComputeTicks
    \/ SelectLastTex
    \/ ReadbackSubmit
    \/ ReadbackMap
    \/ ReadbackRead
    \/ ReadbackUnmap
    \/ ReturnRun
    \/ StoreResult
    \/ Raise

Spec == Init /\ [][Next]_vars

\* ------------------------------------------------- two executions of the script
\* What one execution leaves of a single run, with the instrumentation removed.
Uninstrumented(cmds) ==
    [k \in 1..Len(cmds) |->
        [op |-> cmds[k].op, bind_group |-> cmds[k].bind_group,
         dispatches |-> cmds[k].dispatches]]

IsPass(c) == c.op = "pass"

IsResolve(c) == c.op = "resolve"

\* The script has ended normally on an adapter with timestamp queries and is
\* executed again, with the same variant list, on an adapter without them.
Restart ==
    /\ Running
    /\ pc = "exit"
    /\ twin = None
    /\ can_timestamp
    /\ twin' = Some([passes |-> Uninstrumented(SelectSeq(encoder, IsPass)),
                     last_output |-> last_output,
                     distance_field |-> distance_field])
    /\ can_timestamp' = FALSE
    /\ vi' = 0
    /\ pc' = "for"
    /\ results' = <<>>
    /\ returned' = <<>>
    /\ bind_group_ping' = None
    /\ bind_group_pong' = None
    /\ n_bind_groups' = 0
    /\ query_set' = None
    /\ resolve_buffer_size' = None
    /\ encoder' = <<>>
    /\ step' = 0
    /\ qi' = 0
    /\ read_from_ping' = TRUE
    /\ last_output' = "none"
    /\ times' = None
    /\ timestamp_ticks' = None
    /\ period_ns' = None
    /\ distance_field' = None
    /\ submitted' = <<>>
    /\ ndone' = 0
    /\ mem' = FreshMemory
    /\ qvals' = <<>>
    /\ resolve_buffer' = <<>>
    /\ timestamp_read_buffer' = <<>>
    /\ staging' = None
    /\ UNCHANGED <<variants, exc, mapped>>

\* One variant, first executed with timestamp queries.
InitPair ==
    /\ Init
    /\ Len(variants) = 1
    /\ can_timestamp

NextPair == Next \/ Restart

SpecPair == InitPair /\ [][NextPair]_vars

\* ------------------------------------------------ the two binding schemes
\* The record of the other binding scheme: "BFS" for "Btex" and back.
OtherScheme(name) == IF IsTexName(name) THEN NameBuf ELSE NameTex

\* The logical role of a resource within its run's ping/pong pair.
RoleOf(res) ==
    CASE res \in {PingOf(FALSE), PingOf(TRUE)} -> "ping"
      [] res \in {PongOf(FALSE), PongOf(TRUE)} -> "pong"
      [] res \in {CostOf(FALSE), CostOf(TRUE)} -> "cost"
      [] OTHER -> "none"

\* The logical roles the recorded passes bind at slots 0, 1 and 2, pass by pass.
PassRoles(cmds) ==
    [k \in 1..Len(cmds) |->
        [cost |-> RoleOf(ResourceOf(cmds[k].bind_group.b0)),
         in |-> RoleOf(ResourceOf(cmds[k].bind_group.b1)),
         out |-> RoleOf(ResourceOf(cmds[k].bind_group.b2))]]

\* The resource a finished run copied to its staging buffer.
ReadbackSource ==
    LET last == submitted[Len(submitted)]
    IN IF submitted # <<>> /\ last.kind = "readback" THEN last.cmds[1].source
       ELSE "none"

\* The script has ended normally and is executed again on the same adapter with
\* the record of the other binding scheme and the same iteration count.
RerunOtherScheme ==
    /\ Running
    /\ pc = "exit"
    /\ twin = None
    /\ twin' = Some([roles |-> PassRoles(SelectSeq(encoder, IsPass)),
                     output |-> RoleOf(ReadbackSource),
                     distance_field |-> distance_field])
    /\ variants' = [k \in DOMAIN variants |->
                      [name |-> OtherScheme(variants[k].name),
                       iterations |-> variants[k].iterations]]
    /\ vi' = 0
    /\ pc' = "for"
    /\ results' = <<>>
    /\ returned' = <<>>
    /\ bind_group_ping' = None
    /\ bind_group_pong' = None
    /\ n_bind_groups' = 0
    /\ query_set' = None
    /\ resolve_buffer_size' = None
    /\ encoder' = <<>>
    /\ step' = 0
    /\ qi' = 0
    /\ read_from_ping' = TRUE
    /\ last_output' = "none"
    /\ times' = None
    /\ timestamp_ticks' = None
    /\ period_ns' = None
    /\ distance_field' = None
    /\ submitted' = <<>>
    /\ ndone' = 0
    /\ mem' = FreshMemory
    /\ qvals' = <<>>
    /\ resolve_buffer' = <<>>
    /\ timestamp_read_buffer' = <<>>
    /\ staging' = None
    /\ UNCHANGED <<can_timestamp, exc, mapped>>

\* One variant, run under one scheme and then under the other.
InitSchemes ==
    /\ Init
    /\ Len(variants) = 1

NextSchemes == Next \/ RerunOtherScheme

SpecSchemes == InitSchemes /\ [][NextSchemes]_vars

\* ------------------------------------------------------- arbitrary tick values
\* One variant on an adapter with timestamp queries; the device's tick counter
\* is not restricted.
InitTicks ==
    /\ Init
    /\ Len(variants) = 1
    /\ can_timestamp

NextTicks == Next \/ DeviceExecuteAnyTicks

SpecTicks == InitTicks /\ [][NextTicks]_vars

\* ------------------------------------------------------------------- claims
\* Positions of a run at which the pass loop has ended.
PassesRecorded ==
    pc \in {"resolve", "submit", "wait_main", "copy_submit", "wait_copy", "ts_map",
            "ts_read", "ts_unmap", "ts_ticks", "select_last_tex", "rb_submit",
            "rb_map", "rb_read", "rb_unmap", "rb_return", "store"}

\* Positions of a run at which the resolve loop has ended as well.
AllRecorded == PassesRecorded /\ pc # "resolve"

\* Positions of a run from the creation of the encoder on.
EncoderLive == pc = "record" \/ PassesRecorded

PassCmds == SelectSeq(encoder, IsPass)

ResolveCmds == SelectSeq(encoder, IsResolve)

\* The batches of one kind the current run has submitted.
Batches(kind) == {i \in DOMAIN submitted : submitted[i].kind = kind}

\* C1: the resource a run reads back as its final distance field is the ping
\* resource when the iteration count N is even (N = 0 included) and the pong
\* resource when N is odd, and for N >= 1 it is the resource bound at slot 2 of
\* the last recorded pass; this holds for the buffer and the texture variant.
C1_OutputIsLastWriteTarget ==
    \A i \in Batches("readback") :
        LET src == submitted[i].cmds[1].source
            P == PassCmds
        IN /\ src = IF CurIters % 2 = 0 THEN PingOf(CurIsTex) ELSE PongOf(CurIsTex)
           /\ CurIters >= 1 =>
                /\ Len(P) = CurIters
                /\ src = ResourceOf(P[CurIters].bind_group.b2)

C1_Witness ==
    /\ Batches("readback") # {}
    /\ CurIsTex
    /\ CurIters = 3
    /\ submitted[Len(submitted)].cmds[1].source = "dist_tex_pong"

\* C2: a run records exactly N compute passes, all into the one encoder whose
\* contents are submitted as the main batch; each pass has exactly one dispatch;
\* pass i (from 0) reads ping and writes pong when i is even and reads pong and
\* writes ping when i is odd; and both bind groups exist, and only these two
\* were ever created, whenever a pass is or has been recorded.
C2_PassesAlternateBindings ==
    /\ EncoderLive =>
         LET P == PassCmds
             tex == CurIsTex
         IN
         /\ Len(P) = step
         /\ step <= CurIters
         /\ PassesRecorded => Len(P) = CurIters
         /\ n_bind_groups = 2
         /\ bind_group_ping # None
         /\ bind_group_pong # None
         /\ \A i \in 1..Len(P) :
              /\ Len(P[i].dispatches) = 1
              /\ P[i].bind_group.b1 =
                    BindingOf(IF (i - 1) % 2 = 0 THEN PingOf(tex) ELSE PongOf(tex))
              /\ P[i].bind_group.b2 =
                    BindingOf(IF (i - 1) % 2 = 0 THEN PongOf(tex) ELSE PingOf(tex))
    /\ \A i \in DOMAIN submitted :
         IF submitted[i].kind = "main"
         THEN i = 1 /\ submitted[i].cmds = encoder
         ELSE \A k \in DOMAIN submitted[i].cmds : ~IsPass(submitted[i].cmds[k])

C2_Witness ==
    /\ Batches("main") # {}
    /\ CurIters = 3
    /\ ~CurIsTex
    /\ PassCmds[3].bind_group = BindGroupPing(FALSE)

\* C3: in the recorded pass sequence the distance-in resource of pass i+1 is the
\* distance-out resource of pass i, every pass has two different members of the
\* run's ping/pong pair at its slots 1 and 2, so that no pass reads the
\* resource it writes and each pass consumes what the pass before it produced.
C3_PassChain ==
    EncoderLive =>
      LET P == PassCmds
      IN
      /\ \A i \in 1..Len(P) :
           LET in == ResourceOf(P[i].bind_group.b1)
               out == ResourceOf(P[i].bind_group.b2)
           IN /\ in # out
              /\ {in, out} = {PingOf(CurIsTex), PongOf(CurIsTex)}
      /\ \A i \in 1..(Len(P) - 1) :
           ResourceOf(P[i + 1].bind_group.b1) = ResourceOf(P[i].bind_group.b2)

C3_Witness ==
    /\ pc = "submit"
    /\ CurIters = 3
    /\ ~CurIsTex
    /\ Len(PassCmds) = 3
    /\ PassCmds[2].bind_group.b2 = "distance_buffer_ping"
    /\ PassCmds[3].bind_group.b1 = "distance_buffer_ping"

\* The scheduler's state, read off the host position and the queue.
Phase ==
    IF Batches("main") # {}
    THEN IF ndone = 0 THEN "Submitted" ELSE "Complete"
    ELSE IF pc \in {"record", "resolve", "submit"} THEN "Recording" ELSE "Idle"

\* Positions of the readback steps: the resolve-copy batch, the mappings and
\* the copy of the final distance field.
ReadbackPcs ==
    {"copy_submit", "wait_copy", "ts_map", "ts_read", "ts_unmap", "ts_ticks",
     "select_last_tex", "rb_submit", "rb_map", "rb_read", "rb_unmap", "rb_return",
     "store"}

\* What holds of every state of a run for C4.
C4_State ==
    /\ Cardinality(Batches("main")) <= 1
    /\ \A i \in Batches("main") :
         /\ i = 1
         /\ Len(SelectSeq(submitted[i].cmds, IsPass)) = CurIters
         /\ Len(SelectSeq(submitted[i].cmds, IsResolve)) =
               IF can_timestamp THEN 2 * CurIters ELSE 0
    /\ (Batches("copy") # {} \/ Batches("readback") # {} \/ mapped # {}) =>
         /\ Batches("main") # {}
         /\ ndone >= 1
    /\ (Running /\ pc \in ReadbackPcs /\ vi >= 1) => Phase = "Complete"
    /\ "timestamp_read_buffer" \in mapped =>
         \E i \in Batches("copy") : ndone >= i

\* C4: each run goes Idle -> Recording -> Submitted -> Complete once: the main
\* batch is submitted once, with all N passes and all resolves in it, and the
\* device has completed it before the host starts any readback step (the
\* resolve-copy batch, a mapping, the copy of the distance field); the timestamp
\* read buffer is mapped only after the resolve-copy batch has completed.
C4_SubmitOnceThenReadback ==
    [][/\ C4_State'
       /\ <<Phase, Phase'>> \in
            {<<"Idle", "Idle">>, <<"Idle", "Recording">>,
             <<"Recording", "Recording">>, <<"Recording", "Submitted">>,
             <<"Submitted", "Submitted">>, <<"Submitted", "Complete">>,
             <<"Complete", "Complete">>, <<"Complete", "Idle">>}
       /\ (Phase = "Complete" /\ Phase' = "Idle") => vi' = vi + 1]_vars

C4_Witness ==
    /\ pc = "rb_read"
    /\ can_timestamp
    /\ CurIters = 2
    /\ mapped = {"staging_buffer"}
    /\ ndone = 3

\* The query indices the recorded passes write, in recording order.
RECURSIVE WriteIndices(_)
WriteIndices(passes) ==
    IF passes = <<>> THEN <<>>
    ELSE LET tw == Head(passes).timestamp_writes
         IN (IF tw = None THEN <<>> ELSE <<tw[1].begin, tw[1].end>>)
            \o WriteIndices(Tail(passes))

\* C5: with timestamp queries the query set of a run has exactly 2N entries,
\* pass i carries a begin write at index 2i and an end write at index 2i+1, so
\* that 2N writes occur, each index of [0, 2N) exactly once and none outside,
\* and the passes are the only commands recorded up to the end of the pass loop.
C5_TimestampWriteIndices ==
    (can_timestamp /\ EncoderLive) =>
      LET P == PassCmds
          w == WriteIndices(P)
      IN
      /\ query_set = Some([count |-> 2 * CurIters])
      /\ \A i \in 1..Len(P) :
           P[i].timestamp_writes = Some([begin |-> 2 * (i - 1), end |-> 2 * (i - 1) + 1])
      /\ \A k \in DOMAIN encoder : IsPass(encoder[k]) \/ IsResolve(encoder[k])
      /\ (pc = "record" \/ (pc = "resolve" /\ qi = 0)) => Len(encoder) = step
      /\ PassesRecorded =>
           /\ Len(w) = 2 * CurIters
           /\ \A k \in DOMAIN w : w[k] >= 0 /\ w[k] < query_set[1].count
           /\ \A q \in 0..(2 * CurIters - 1) :
                Cardinality({k \in DOMAIN w : w[k] = q}) = 1

C5_Witness ==
    /\ can_timestamp
    /\ pc = "resolve"
    /\ qi = 0
    /\ CurIters = 3
    /\ WriteIndices(PassCmds) = <<0, 1, 2, 3, 4, 5>>

\* C6: with timestamp queries a run records exactly 2N resolve operations, all
\* after the last pass and all in the batch that is submitted; the operation for
\* query index i resolves one query to byte offset 256*i, so every offset is a
\* multiple of 256, the 8-byte slots are pairwise disjoint and every slot lies
\* inside the resolve buffer of 2N*256 bytes.
C6_ResolveSlots ==
    (can_timestamp /\ EncoderLive) =>
      LET P == PassCmds
          R == ResolveCmds
      IN
      /\ Len(R) = IF PassesRecorded THEN qi ELSE 0
      /\ AllRecorded => Len(R) = 2 * CurIters
      /\ \A k \in DOMAIN encoder :
           IF k <= Len(P) THEN IsPass(encoder[k]) ELSE IsResolve(encoder[k])
      /\ R # <<>> => Len(P) = CurIters
      /\ resolve_buffer_size = Some(2 * CurIters * 256)
      /\ \A i \in DOMAIN R :
           /\ R[i].first_query = i - 1
           /\ R[i].query_count = 1
           /\ R[i].destination_offset = 256 * (i - 1)
           /\ R[i].destination_offset % 256 = 0
           /\ R[i].destination_offset + 8 <= resolve_buffer_size[1]
      /\ \A i, j \in DOMAIN R :
           i # j =>
             \/ R[i].destination_offset + 8 <= R[j].destination_offset
             \/ R[j].destination_offset + 8 <= R[i].destination_offset
      /\ \A b \in Batches("main") : submitted[b].cmds = encoder /\ AllRecorded

C6_Witness ==
    /\ can_timestamp
    /\ pc = "wait_main"
    /\ CurIters = 3
    /\ Len(ResolveCmds) = 6
    /\ ResolveCmds[6].destination_offset = 1280

\* C7: without timestamp-query support a run has no query set, no pass with
\* timestamp writes, no resolve operation, no resolve-copy batch and no ticks,
\* and the passes it records, their bindings and dispatches, the output it
\* selects and the field it reads back are those of the execution with
\* timestamp support for the same variant.
C7_UninstrumentedRunMatches ==
    ~can_timestamp =>
      /\ query_set = None
      /\ resolve_buffer_size = None
      /\ \A k \in DOMAIN encoder :
           IsPass(encoder[k]) /\ encoder[k].timestamp_writes = None
      /\ Batches("copy") = {}
      /\ times = None
      /\ timestamp_ticks = None
      /\ \A k \in DOMAIN returned : returned[k].ticks = None
      /\ \A n \in DOMAIN results : results[n].ticks = None
      /\ (twin # None /\ pc = "exit") =>
           /\ Uninstrumented(encoder) = twin[1].passes
           /\ last_output = twin[1].last_output
           /\ distance_field = twin[1].distance_field

C7_Witness ==
    /\ ~can_timestamp
    /\ twin # None
    /\ pc = "exit"
    /\ Running
    /\ Len(twin[1].passes) = 3
    /\ Len(encoder) = 3
    /\ DOMAIN results # {}

\* The host positions between a map and its unmap.
MappedRegion == {"ts_read", "ts_unmap", "rb_read", "rb_unmap"}

\* C8: every readback operation unmaps the buffer it mapped on every exit path,
\* a failing step between the map and the unmap included: outside the steps
\* between a map and its unmap, and after any exception, no buffer is mapped.
C8_UnmappedOnEveryExit ==
    (exc # None \/ pc \notin MappedRegion) => mapped = {}

\* C9: a failure is never retried and halts the sweep at once: from the failing
\* step on the host takes no further step (no resubmission, no later variant),
\* the failing run has returned no result, and the report stays as it was.
C9_FailureHaltsSweep ==
    [][exc' # None =>
         /\ exc = None \/ exc' = exc
         /\ pc' = pc
         /\ vi' = vi
         /\ submitted' = submitted
         /\ mapped' = mapped
         /\ results' = results
         /\ returned' = returned
         /\ Len(returned') = vi' - 1]_vars

C9_Witness ==
    /\ exc # None
    /\ vi = 2
    /\ Len(variants) = 2
    /\ DOMAIN results # {}
    /\ ndone = Len(submitted)
    /\ pc = "rb_map"

\* C10: when all runs succeed the report holds one result per record: after k
\* records it holds k results, and the result of each record is the one that
\* record's own run returned, also when two records carry the same name.
C10_OneResultPerRecord ==
    (Running /\ pc = "for") =>
      /\ Cardinality(DOMAIN results) = vi
      /\ \A j \in 1..vi : results[variants[j].name] = returned[j]

\* C11: with the same iteration count N the buffer run and the texture run bind
\* the same logical roles in every pass (ping as distance-in and pong as
\* distance-out in the even passes, the reverse in the odd ones), read back the
\* resource of the same role, and so read back the same field, for every N from
\* 0 on, whichever scheme runs first.
C11_SchemesAgree ==
    (twin # None /\ pc \in {"store", "for", "exit"} /\ vi = 1 /\ Running) =>
      /\ PassRoles(PassCmds) = twin[1].roles
      /\ Len(PassCmds) = CurIters
      /\ \A i \in 1..Len(PassCmds) :
           /\ PassRoles(PassCmds)[i].in = IF (i - 1) % 2 = 0 THEN "ping" ELSE "pong"
           /\ PassRoles(PassCmds)[i].out = IF (i - 1) % 2 = 0 THEN "pong" ELSE "ping"
      /\ RoleOf(ReadbackSource) = twin[1].output
      /\ RoleOf(ReadbackSource) \in {"ping", "pong"}
      /\ ReadbackSource \in {PingOf(CurIsTex), PongOf(CurIsTex)}
      /\ distance_field = twin[1].distance_field

C11_Witness ==
    /\ twin # None
    /\ pc = "exit"
    /\ Running
    /\ CurIsTex
    /\ CurIters = 3
    /\ Len(twin[1].roles) = 3
    /\ twin[1].output = "pong"
    /\ ReadbackSource = "dist_tex_pong"

\* np.count_nonzero(field > 0): the visited cells of a field read back.
VisitedCount(field) == Cardinality({i \in DOMAIN field : field[i] > 0})

SlotTick(q) == resolve_buffer[256 * q]

\* C13: the tick taken for query q is the value at byte offset 256*q of the
\* resolve buffer, which is element 32*q of the buffer read as 64-bit words;
\* exactly 2N ticks are taken; and the elapsed ticks reported for pass i are
\* end - start of the ticks of queries 2i and 2i+1 in unsigned arithmetic at
\* the tick width: the difference itself when end >= start, and the difference
\* plus 2^width when end < start.
C13_TicksFromSlots ==
    (pc \in {"ts_unmap", "ts_ticks", "select_last_tex", "rb_submit", "rb_map",
             "rb_read", "rb_unmap", "rb_return"} /\ can_timestamp) =>
      /\ times # None
      /\ Len(times[1]) = 2 * CurIters
      /\ LET words == AllU64(timestamp_read_buffer, resolve_buffer_size[1])
         IN \A q \in 0..(2 * CurIters - 1) :
              /\ 256 * q \in DOMAIN resolve_buffer
              /\ times[1][q + 1] = SlotTick(q)
              /\ times[1][q + 1] = words[32 * q + 1]
              /\ times[1][q + 1] = qvals[q + 1]
      /\ timestamp_ticks # None =>
           /\ Len(timestamp_ticks[1]) = CurIters
           /\ \A i \in 0..(CurIters - 1) :
                LET start == SlotTick(2 * i)
                    end == SlotTick(2 * i + 1)
                IN /\ timestamp_ticks[1][i + 1] =
                        IF end >= start THEN end - start
                        ELSE end - start + TickModulus
                   /\ timestamp_ticks[1][i + 1] \in TickValues

C13_Witness ==
    /\ pc = "rb_return"
    /\ can_timestamp
    /\ CurIters = 2
    /\ Len(times[1]) = 4
    /\ SlotTick(3) < SlotTick(2)
    /\ SlotTick(1) > SlotTick(0)
    /\ timestamp_ticks[1][2] = SlotTick(3) - SlotTick(2) + TickModulus

\* Every command of the current run: those in the encoder and those submitted.
AllCommands ==
    {encoder[k] : k \in DOMAIN encoder}
      \cup UNION {{submitted[b].cmds[k] : k \in DOMAIN submitted[b].cmds} :
                    b \in DOMAIN submitted}

\* The bind group entries that name the cost field.
CostBindings == {BindingOf(r) : r \in CostResources}

\* C14: the cost field, uploaded before the sweep, is never written: every bind
\* group and every pass of every variant has it at slot 0 and nowhere else,
\* slot 2 is a member of the variant's own ping/pong pair, no copy and no
\* resolve has it as destination, and the buffer and the texture hold the
\* uploaded terrain in every state of the sweep.
C14_CostFieldReadOnly ==
    /\ \A r \in CostResources : mem[r] = terrain_flat
    /\ \A g \in {bind_group_ping, bind_group_pong} :
         g # None =>
           /\ g[1].b0 = BindingOf(CostOf(CurIsTex))
           /\ {g[1].b1, g[1].b2, g[1].b3} \cap CostBindings = {}
    /\ \A c \in AllCommands :
         /\ IsPass(c) =>
              /\ c.bind_group.b0 = BindingOf(CostOf(CurIsTex))
              /\ c.bind_group.b1 \notin CostBindings
              /\ ResourceOf(c.bind_group.b2) \in {PingOf(CurIsTex), PongOf(CurIsTex)}
              /\ c.bind_group.b3 \notin CostBindings
         /\ ~IsPass(c) =>
              /\ c.destination \notin CostResources
              /\ c.destination \notin CostBindings

C14_Witness ==
    /\ vi = 2
    /\ pc = "rb_return"
    /\ CurIsTex
    /\ CurIters = 2
    /\ ~IsTexName(variants[1].name)
    /\ variants[1].iterations = 1
    /\ mem["dist_tex_pong"] # Seed
    /\ mem["dist_tex_ping"] # Seed
    /\ mem["terrain_tex"] = terrain_flat
    /\ mem["grid_buffer"] = terrain_flat

====
